---- MODULE Spec2Model ----
(***************************************************************************)
(* Intent-routing state machine of the sales-compensation agent.           *)
(*                                                                         *)
(*   graph.py               salesCompAgent: classifier -> main_router ->   *)
(*                          one node -> END, checkpointed per conversation *)
(*   src/contest_agent.py   ContestAgent.contest_agent (booking stages)    *)
(*   src/ticket_agent.py    TicketAgent.ticket_agent (ticket + email)      *)
(*                                                                         *)
(* The language model and the scheduling, booking and email collaborators  *)
(* are opaque: every value they may return, and every failure they may     *)
(* raise, is an input chosen with \E.                                      *)
(***************************************************************************)
EXTENDS Naturals, Sequences, FiniteSets, TLC

VARIABLES
    state,     \* AgentState of the conversation (the checkpointed channels)
    pc,        \* position of the running turn in the graph
    nxt,       \* what main_router returned for this turn
    impl,      \* the node function that ran in this turn
    ret,       \* the record the last node function returned (<<>> for None)
    cls,       \* what the classifier's model call returned in this turn
    llm,       \* the structured value the handler's first model call returned
    trace,     \* the steps of this turn, in order
    calls,     \* the model and collaborator calls of this turn, in order
    effects,   \* booking and email calls of the whole conversation, in order
    err,       \* the exception that ended this turn, "none" otherwise
    turns,     \* graph invocations on this conversation so far
    stale      \* the handler whose audit value category held when this turn
               \* began ("policy", "commission"), "none" otherwise

vars == <<state, pc, nxt, impl, ret, cls, llm, trace, calls, effects, err, turns, stale>>

----------------------------------------------------------------------------
(* Bounds *)

\* graph invocations on one conversation (thread_id)
MaxTurns == 2

----------------------------------------------------------------------------
(* Values *)

\* a key the state, or a returned record, does not hold
Absent == "<absent>"
\* Python's None as the value of an Optional field
None == "None"
\* langgraph.graph.END
END == "__end__"

\* graph.py:31
VALID_CATEGORIES == <<"policy", "commission", "contest", "ticket", "clarify">>

\* the four policies the policy prompt names, graph.py:107-110
POLICY_NAMES ==
    {"Minimum commission guarantee", "Air cover bonus",
     "Windfall activation", "Leave of absence"}

\* the errors a model call may raise (neither is caught anywhere in the code)
ModelErrors == {"SchemaValidationError", "ModelUnavailableError"}
ModelOutcomes == {"ok"} \cup ModelErrors

\* user utterances; the second carries name, email and issue, the third
\* lacks name and email
Messages ==
    {"What is minimum commission guarantee?",
     "I am Ann Lee, ann@corp.com: my Q3 payout is wrong",
     "My Q3 payout is wrong"}

\* values the classifier's Category.category (a plain str) may take
CategoryOutputs ==
    {"policy", "commission", "contest", "ticket", "clarify",
     "", "Policy", "Minimum commission guarantee"}

\* values PolicyResponse.policy (a plain str) may take
PolicyOutputs == POLICY_NAMES \cup {"policy", "minimum commission guarantee", ""}

\* values of CommissionResponse
CommissionOutputs ==
    { [commission |-> "0.05", calculation |-> "100000 / 2000000", response |-> "Your rate is 5%"],
      [commission |-> "5000", calculation |-> "", response |-> "You earn 5000"] }

\* graph.py:10-15
AgentStateKeys == {"agent", "initialMessage", "responseToUser", "lnode", "category"}

AgentState(msg) ==
    [k \in AgentStateKeys |-> IF k = "initialMessage" THEN msg ELSE Absent]

\* how the graph applies a node's returned record: the keys of AgentState it
\* holds overwrite the state, the others are dropped, None changes nothing
ApplyUpdate(s, r) ==
    [k \in DOMAIN s |-> IF k \in DOMAIN r THEN r[k] ELSE s[k]]

NoneReturned == <<>>

InSeq(x, s) == \E i \in 1..Len(s) : s[i] = x

Call(fn, args, out) == [fn |-> fn, args |-> args, out |-> out]

----------------------------------------------------------------------------
(* graph.py: classifier, router, policy and commission nodes, stubs *)

\* initial_classifier with the responseToUser key left out of its record
initial_classifier_return_noResponse(category) ==
    [lnode |-> "initial_classifier",
     category |-> category]

\* initial_classifier with the category key left out of its record
initial_classifier_return_noCategory(category) ==
    [lnode |-> "initial_classifier",
     responseToUser |-> "Classifier successful"]

\* graph.py:86-90
initial_classifier_return(category) ==
    [lnode |-> "initial_classifier",
     responseToUser |-> "Classifier successful",
     category |-> category]

\* main_router without the membership test
main_router_unchecked(s) == s["category"]

\* main_router falling back to the clarify node instead of END
main_router_fallback(s) ==
    IF InSeq(s["category"], VALID_CATEGORIES) THEN s["category"] ELSE "clarify"

\* graph.py:93-99
main_router(s) ==
    IF InSeq(s["category"], VALID_CATEGORIES) THEN s["category"] ELSE END

\* the policy record also rewriting the user's message
policy_agent_return_message(policy, response) ==
    [lnode |-> "initial_classifier",
     responseToUser |-> response \o " \n\n Source: " \o policy,
     category |-> policy,
     initialMessage |-> response]

\* graph.py:127-131
policy_agent_return(policy, response) ==
    [lnode |-> "initial_classifier",
     responseToUser |-> response \o " \n\n Source: " \o policy,
     category |-> policy]

\* graph.py:157-161
commission_agent_return(c) ==
    [lnode |-> "initial_classifier",
     responseToUser |-> c.response \o " \n\n Source: " \o c.calculation
                        \o ".\n Commission: " \o c.commission,
     category |-> c.calculation]

\* a node function raises: nothing is written, the invocation ends
Raise(step, e, cs, fx, v) ==
    /\ pc' = "raised"
    /\ err' = e
    /\ llm' = v
    /\ trace' = Append(trace, step)
    /\ calls' = calls \o cs
    /\ effects' = effects \o fx
    /\ UNCHANGED <<state, nxt, impl, ret, cls, turns, stale>>

\* the policy node wired to the commission node instead of END
edge_chained(node) == IF node = "policy" THEN "commission" ELSE END

\* graph.py:53-57: the edge out of each handler node
edge(node) ==
    CASE node = "policy" -> END
      [] node = "commission" -> END
      [] node = "contest" -> END
      [] node = "ticket" -> END
      [] node = "clarify" -> END

\* a node function returns r: the graph merges r into the state and follows
\* the node's edge
NodeDone(step, fn, r, cs, fx, v) ==
    /\ pc' = IF edge(step) = END THEN "END" ELSE "node"
    /\ nxt' = edge(step)
    /\ state' = ApplyUpdate(state, r)
    /\ ret' = r
    /\ impl' = fn
    /\ llm' = v
    /\ trace' = IF edge(step) = END THEN trace \o <<step, END>> ELSE Append(trace, step)
    /\ calls' = calls \o cs
    /\ effects' = effects \o fx
    /\ UNCHANGED <<cls, err, turns, stale>>

\* graph.py:64-90
initial_classifier ==
    /\ pc = "classifier"
    /\ \E e \in ModelOutcomes :
         LET c == Call("structured_output:Category", <<state["initialMessage"]>>, e) IN
         IF e # "ok"
         THEN Raise("classifier", e, <<c>>, <<>>, NoneReturned)
         ELSE \E category \in CategoryOutputs :
              /\ pc' = "router"
              /\ state' = ApplyUpdate(state, initial_classifier_return(category))
              /\ ret' = initial_classifier_return(category)
              /\ cls' = category
              /\ trace' = Append(trace, "classifier")
              /\ calls' = Append(calls, c)
              /\ UNCHANGED <<nxt, impl, llm, effects, err, turns, stale>>

\* graph.py:50, 93-99: the conditional edge out of the classifier
router ==
    /\ pc = "router"
    /\ nxt' = main_router(state)
    /\ trace' = IF main_router(state) = END
                THEN trace \o <<"router", END>>
                ELSE Append(trace, "router")
    /\ pc' = IF main_router(state) = END THEN "END" ELSE "node"
    /\ UNCHANGED <<state, impl, ret, cls, llm, calls, effects, err, turns, stale>>

\* graph.py:102-131
policy_agent ==
    /\ pc = "node" /\ nxt = "policy"
    /\ \E e \in ModelOutcomes :
         LET c == Call("structured_output:PolicyResponse", <<state["initialMessage"]>>, e) IN
         IF e # "ok"
         THEN Raise("policy", e, <<c>>, <<>>, NoneReturned)
         ELSE \E policy \in PolicyOutputs :
                NodeDone("policy", "salesCompAgent.policy_agent",
                         policy_agent_return(policy, "Per policy"), <<c>>, <<>>,
                         [policy |-> policy, response |-> "Per policy"])

\* graph.py:134-161
commission_agent ==
    /\ pc = "node" /\ nxt = "commission"
    /\ \E e \in ModelOutcomes :
         LET c == Call("structured_output:CommissionResponse", <<state["initialMessage"]>>, e) IN
         IF e # "ok"
         THEN Raise("commission", e, <<c>>, <<>>, NoneReturned)
         ELSE \E v \in CommissionOutputs :
                NodeDone("commission", "salesCompAgent.commission_agent",
                         commission_agent_return(v), <<c>>, <<>>, v)


\* graph.py:165-175: the node functions graph.py registers for contest, ticket
\* and clarify (graph.py:44-46) print and return None
placeholder_return == NoneReturned

\* graph.py:166-167
contest_agent ==
    /\ pc = "node" /\ nxt = "contest"
    /\ NodeDone("contest", "salesCompAgent.contest_agent", placeholder_return,
                <<>>, <<>>, NoneReturned)

\* graph.py:170-171
ticket_agent ==
    /\ pc = "node" /\ nxt = "ticket"
    /\ NodeDone("ticket", "salesCompAgent.ticket_agent", placeholder_return,
                <<>>, <<>>, NoneReturned)

\* graph.py:174-175
clarify_agent ==
    /\ pc = "node" /\ nxt = "clarify"
    /\ NodeDone("clarify", "salesCompAgent.clarify_agent", placeholder_return,
                <<>>, <<>>, NoneReturned)

----------------------------------------------------------------------------
(* External collaborators (their code is not part of the three files) *)

\* send_email(from, to, subject, html) -> success | DeliveryError
SendOutcomes == {"success", "DeliveryError", "raise DeliveryError"}
\* book_appointment(slot, email) -> confirmation record | error
BookOutcomes == {"Appointment confirmed", "booking error", "raise BookingError"}
\* handle_appointment_request() -> slots
SlotOutcomes == {"slots", "raise SchedulingError"}
\* open('contesturl.txt').read()
UrlOutcomes == {"https://forms/contest", "raise FileNotFoundError"}

Raises(out) == out \in {"raise DeliveryError", "raise BookingError",
                        "raise SchedulingError", "raise FileNotFoundError"}

Raised(out) ==
    CASE out = "raise DeliveryError" -> "DeliveryError"
      [] out = "raise BookingError" -> "BookingError"
      [] out = "raise SchedulingError" -> "SchedulingError"
      [] out = "raise FileNotFoundError" -> "FileNotFoundError"
      [] OTHER -> "none"

send_email(from, to, subject, html, out) ==
    Call("send_email", <<from, to, subject, html>>, out)

book_appointment(slot, email, out) ==
    Call("book_appointment", <<slot, email>>, out)

handle_appointment_request(out) ==
    Call("handle_appointment_request", <<>>, out)

\* markdown2.markdown of a one-line text
markdown(text) == "<p>" \o text \o "</p>\n"

----------------------------------------------------------------------------
(* src/ticket_agent.py *)

\* values of TicketResponse (ticket_agent.py:12-14)
TicketResponses ==
    [response : {"Thank you Ann, I've created a support ticket",
                 "To help you better, I need your name and email"},
     createTicket : BOOLEAN]

\* the value of TicketEmail.htmlEmail (ticket_agent.py:16-18)
TicketHtml == "<p>Ann Lee, ann@corp.com: Q3 payout</p>"

\* ticket_agent.py:143-146
ticket_send_email(html, out) ==
    send_email("malihajburney@gmail.com", "i_jahangir@hotmail.com",
               "New Ticket from SalesCompAgent", html, out)

\* ticket_agent.py:149-153
ticket_agent_return(full_response) ==
    [lnode |-> "ticket_agent",
     responseToUser |-> full_response.response,
     category |-> "ticket"]

\* the email branch taken whatever createTicket says
ticket_email_branch_always(full_response) == TRUE

\* ticket_agent.py:138: the guard of the email branch
ticket_email_branch(full_response) == full_response.createTicket

\* ticket_agent.py:128-153, as the node function of the ticket node
\* (ticket_agent.py:8-9)
TicketAgent_ticket_agent ==
    /\ pc = "node" /\ nxt = "ticket"
    /\ \E e1 \in ModelOutcomes :
         LET c1 == Call("structured_output:TicketResponse", <<state["initialMessage"]>>, e1)
             fn == "TicketAgent.ticket_agent"
         IN
         IF e1 # "ok" THEN Raise("ticket", e1, <<c1>>, <<>>, NoneReturned)
         ELSE \E full_response \in TicketResponses :
           IF ~ticket_email_branch(full_response)
           THEN NodeDone("ticket", fn, ticket_agent_return(full_response),
                         <<c1>>, <<>>, full_response)
           ELSE \E e2 \in ModelOutcomes :
                  LET c2 == Call("structured_output:TicketEmail", <<>>, e2) IN
                  IF e2 # "ok" THEN Raise("ticket", e2, <<c1, c2>>, <<>>, full_response)
                  ELSE \E out \in SendOutcomes :
                         LET c3 == ticket_send_email(TicketHtml, out) IN
                         IF Raises(out)
                         THEN Raise("ticket", Raised(out), <<c1, c2, c3>>, <<c3>>, full_response)
                         ELSE NodeDone("ticket", fn, ticket_agent_return(full_response),
                                       <<c1, c2, c3>>, <<c3>>, full_response)

----------------------------------------------------------------------------
(* src/contest_agent.py *)

\* values of ContestDecision (contest_agent.py:14-19); decision is a plain str
ContestDecisionNames ==
    {"askForUserInfo", "BookAppointment", "ConfirmAppointment",
     "AppointmentComplete", "Other", "askforuserinfo", "confirmappointment"}

\* timeslot, email and name are Optional: all present, or one of them None
ContestDecisions ==
    { [decision |-> dn, nextsteps |-> "Please share your full name and email address",
       timeslot |-> f[1], email |-> f[2], name |-> f[3]] :
      dn \in ContestDecisionNames,
      f \in { <<"2025-01-06T10:00", "ann@corp.com", "Ann Lee">>,
              <<None, "ann@corp.com", "Ann Lee">>,
              <<"2025-01-06T10:00", None, "Ann Lee">>,
              <<"2025-01-06T10:00", "ann@corp.com", None>> } }

\* the content of the plain completion that formats the slots
\* (contest_agent.py:57-59)
SlotList == "Available: Mon 10:00, Tue 14:00. Please choose a time slot."

\* the BookAppointment record without the user's name and email
contest_book_return_noUser(user_response, d) ==
    [lnode |-> "contest_agent",
     responseToUser |-> user_response,
     category |-> "contest"]

\* contest_agent.py:140-146
contest_book_return(user_response, d) ==
    [lnode |-> "contest_agent",
     responseToUser |-> user_response,
     category |-> "contest",
     name |-> d.name,
     email |-> d.email]

\* the sub-decision written into category
contest_agent_return_decision(user_response, d) ==
    [lnode |-> "contest_agent",
     responseToUser |-> user_response,
     category |-> d.decision]

\* contest_agent.py:162-166
contest_agent_return(user_response, d) ==
    [lnode |-> "contest_agent",
     responseToUser |-> user_response,
     category |-> "contest"]

\* contest_agent.py:151-153
contest_send_email(d, url, out) ==
    send_email("malihajburney@gmail.com", d.email,
               "Please complete the SPIF/Sales Contest Intake Form",
               markdown(url), out)

\* the decision compared without regard to case
contest_branch_anyCase(d) ==
    IF d.decision \in {"BookAppointment", "bookappointment"} THEN "BookAppointment"
    ELSE IF d.decision \in {"ConfirmAppointment", "confirmappointment"}
         THEN "ConfirmAppointment"
    ELSE IF d.decision \in {"AppointmentComplete", "appointmentcomplete"}
         THEN "AppointmentComplete"
    ELSE "Other"

\* contest_agent.py:136, 148, 155, 158: the branch a decision takes
contest_branch(d) ==
    IF d.decision = "BookAppointment" THEN "BookAppointment"
    ELSE IF d.decision = "ConfirmAppointment" THEN "ConfirmAppointment"
    ELSE IF d.decision = "AppointmentComplete" THEN "AppointmentComplete"
    ELSE "Other"

\* contest_agent.py:120-166, as the node function of the contest node
\* (contest_agent.py:21-22)
ContestAgent_contest_agent ==
    /\ pc = "node" /\ nxt = "contest"
    /\ \E e1 \in ModelOutcomes :
         LET c1 == Call("structured_output:ContestDecision", <<>>, e1)
             fn == "ContestAgent.contest_agent"
         IN
         IF e1 # "ok" THEN Raise("contest", e1, <<c1>>, <<>>, NoneReturned)
         ELSE \E d \in ContestDecisions :
           IF contest_branch(d) = "BookAppointment"
           THEN \E slots \in SlotOutcomes :
                  LET cSlots == handle_appointment_request(slots) IN
                  IF Raises(slots)
                  THEN Raise("contest", Raised(slots), <<c1, cSlots>>, <<>>, d)
                  ELSE \E e2 \in {"ok", "ModelUnavailableError"} :
                         LET cList == Call("invoke", <<slots>>, e2) IN
                         IF e2 # "ok"
                         THEN Raise("contest", e2, <<c1, cSlots, cList>>, <<>>, d)
                         ELSE NodeDone("contest", fn, contest_book_return(SlotList, d),
                                       <<c1, cSlots, cList>>, <<>>, d)
           ELSE IF contest_branch(d) = "ConfirmAppointment"
           THEN \E book \in BookOutcomes :
                  LET cBook == book_appointment(d.timeslot, d.email, book) IN
                  IF Raises(book)
                  THEN Raise("contest", Raised(book), <<c1, cBook>>, <<cBook>>, d)
                  ELSE \E url \in UrlOutcomes :
                         LET cUrl == Call("get_contest_url", <<>>, url) IN
                         IF Raises(url)
                         THEN Raise("contest", Raised(url), <<c1, cBook, cUrl>>, <<cBook>>, d)
                         ELSE \E out \in SendOutcomes :
                                LET cSend == contest_send_email(d, url, out) IN
                                IF Raises(out)
                                THEN Raise("contest", Raised(out),
                                           <<c1, cBook, cUrl, cSend>>, <<cBook, cSend>>, d)
                                ELSE NodeDone("contest", fn, contest_agent_return(book, d),
                                              <<c1, cBook, cUrl, cSend>>, <<cBook, cSend>>, d)
           ELSE NodeDone("contest", fn, contest_agent_return(d.nextsteps, d),
                         <<c1>>, <<>>, d)

----------------------------------------------------------------------------
(* The caller: one conversation (thread_id), one graph invocation per turn *)

\* graph.invoke({"initialMessage": msg}, thread) on the checkpointed state:
\* the input overwrites initialMessage, the other channels keep their values
NewTurn ==
    /\ pc \in {"END", "raised"}
    /\ turns < MaxTurns
    /\ \E msg \in Messages :
         state' = ApplyUpdate(state, [initialMessage |-> msg])
    /\ pc' = "classifier"
    /\ nxt' = Absent
    /\ impl' = Absent
    /\ ret' = NoneReturned
    /\ cls' = Absent
    /\ llm' = NoneReturned
    /\ trace' = <<>>
    /\ calls' = <<>>
    /\ err' = "none"
    /\ turns' = turns + 1
    /\ stale' = IF impl = "salesCompAgent.policy_agent" THEN "policy"
                ELSE IF impl = "salesCompAgent.commission_agent" THEN "commission"
                ELSE IF pc = "raised" /\ cls = Absent THEN stale
                ELSE "none"
    /\ UNCHANGED effects

Init ==
    /\ \E msg \in Messages : state = AgentState(msg)
    /\ pc = "classifier"
    /\ nxt = Absent
    /\ impl = Absent
    /\ ret = NoneReturned
    /\ cls = Absent
    /\ llm = NoneReturned
    /\ trace = <<>>
    /\ calls = <<>>
    /\ effects = <<>>
    /\ err = "none"
    /\ turns = 1
    /\ stale = "none"

Next ==
    \/ initial_classifier
    \/ router
    \/ policy_agent
    \/ commission_agent
    \/ contest_agent
    \/ ticket_agent
    \/ clarify_agent
    \/ ContestAgent_contest_agent
    \/ TicketAgent_ticket_agent
    \/ NewTurn

Spec == Init /\ [][Next]_vars

----------------------------------------------------------------------------
(* Properties *)

HandlerIds == {"policy", "commission", "contest", "ticket", "clarify"}

IsPrefix(p, q) == Len(p) <= Len(q) /\ \A i \in 1..Len(p) : p[i] = q[i]

\* the calls of this turn to collaborator fn
CallsTo(fn) == { i \in 1..Len(calls) : calls[i].fn = fn }

\* C1: main_router is total and deterministic: the router step sends each of
\* policy, commission, contest, ticket, clarify to the node of that name and
\* every other string (the empty string, a policy name left in category) to
\* END, and it leaves the state as it found it.
C1_RouterTotal ==
    [][pc = "router" =>
         /\ state' = state
         /\ nxt' = CASE state["category"] = "policy" -> "policy"
                     [] state["category"] = "commission" -> "commission"
                     [] state["category"] = "contest" -> "contest"
                     [] state["category"] = "ticket" -> "ticket"
                     [] state["category"] = "clarify" -> "clarify"
                     [] OTHER -> END
         /\ pc' = IF nxt' = END THEN "END" ELSE "node"]_vars

\* a policy name fed back as category has been routed to END
C1_Witness ==
    /\ cls = "Minimum commission guarantee"
    /\ trace = <<"classifier", "router", END>>
    /\ nxt = END

\* C2: with a valid classifier output the steps of a turn are classifier,
\* router, the handler named by the category, END, in that order; no other
\* handler runs and none runs before the classifier wrote category.
C2_TurnOrder ==
    /\ \A i \in 1..Len(trace) :
         trace[i] \in HandlerIds => i = 3 /\ trace[i] = cls
    /\ cls \in HandlerIds =>
         /\ IsPrefix(trace, <<"classifier", "router", cls, END>>)
         /\ pc = "END" => /\ trace = <<"classifier", "router", cls, END>>
                          /\ impl # Absent
         /\ pc = "node" => nxt = cls

\* a ticket turn has run to its end
C2_Witness ==
    /\ pc = "END"
    /\ cls = "ticket"
    /\ trace = <<"classifier", "router", "ticket", END>>

\* C3: a classifier output outside the valid set ends the turn right after
\* the router: no handler runs and the classifier's model call is the only
\* call of the turn.
C3_InvalidTerminates ==
    (cls # Absent /\ cls \notin HandlerIds) =>
        /\ pc \in {"router", "END"}
        /\ impl = Absent
        /\ IsPrefix(trace, <<"classifier", "router", END>>)
        /\ pc = "END" => trace = <<"classifier", "router", END>>
        /\ Len(calls) = 1
        /\ calls[1].fn = "structured_output:Category"

\* the empty category has ended a turn
C3_Witness ==
    /\ pc = "END"
    /\ cls = ""
    /\ trace = <<"classifier", "router", END>>

\* C4: whenever a turn has reached END, on any path, responseToUser holds a
\* value.
C4_ResponseSet ==
    pc = "END" => state["responseToUser"] \notin {Absent, None}

\* the first turn of a conversation ended without a handler
C4_Witness ==
    /\ pc = "END"
    /\ turns = 1
    /\ impl = Absent
    /\ state["responseToUser"] = "Classifier successful"

\* the real ticket handler is the node function of this turn (it returned,
\* or it raised: the placeholder cannot raise)
TicketHandlerRan ==
    /\ Len(trace) >= 3
    /\ trace[3] = "ticket"
    /\ (impl = "TicketAgent.ticket_agent" \/ pc = "raised")

ContestHandlerRan ==
    /\ Len(trace) >= 3
    /\ trace[3] = "contest"
    /\ (impl = "ContestAgent.contest_agent" \/ pc = "raised")

\* name, email and issue are all in the message
C5_AllFieldsPresent(msg) ==
    msg = "I am Ann Lee, ann@corp.com: my Q3 payout is wrong"

IntakeSubject == "Please complete the SPIF/Sales Contest Intake Form"

\* the intake-form emails delivered in this conversation; each follows the
\* booking call of its ConfirmAppointment stage
IntakeSends ==
    { k \in 2..Len(effects) :
        /\ effects[k].fn = "send_email"
        /\ effects[k].args[3] = IntakeSubject
        /\ effects[k].out = "success" }

Bookings ==
    { k \in 1..Len(effects) :
        /\ effects[k].fn = "book_appointment"
        /\ effects[k].out = "Appointment confirmed" }

\* C6: the ConfirmAppointment stage run twice with the same (timeslot, email)
\* sends the intake-form email once and books once.
C6_ConfirmIdempotent ==
    /\ \A j, k \in IntakeSends :
         (/\ effects[j - 1].args = effects[k - 1].args
          /\ None \notin {effects[j - 1].args[1], effects[j - 1].args[2]}) => j = k
    /\ \A j, k \in Bookings :
         (/\ effects[j].args = effects[k].args
          /\ None \notin {effects[j].args[1], effects[j].args[2]}) => j = k

\* C7: no turn ends through a placeholder that returns nothing: the node that
\* ran returned a record with lnode, responseToUser and category.
C7_NoPlaceholderRuns ==
    (pc = "END" /\ Len(trace) = 4) =>
        {"lnode", "responseToUser", "category"} \subseteq DOMAIN ret

\* the four policy names, as the claim and as the prompt spell them
C8_PolicyNames ==
    POLICY_NAMES \cup
    {"minimum commission guarantee", "air cover bonus",
     "windfall activation", "leave of absence"}

\* C8: a turn classified policy runs the policy handler and ends with
\* category one of the four policy names, never "policy".
C8_PolicyCategory ==
    (pc = "END" /\ cls = "policy") =>
        /\ impl = "salesCompAgent.policy_agent"
        /\ state["category"] \in C8_PolicyNames
        /\ state["category"] # "policy"

\* C9: every record the contest handler returns has category "contest",
\* whatever the decision; every record the ticket handler returns has
\* category "ticket" and responseToUser equal to the model's response.
C9_FixedCategory ==
    /\ (pc = "END" /\ impl = "ContestAgent.contest_agent") =>
         /\ ret.category = "contest"
         /\ ret.category # llm.decision
         /\ state["category"] = "contest"
    /\ (pc = "END" /\ impl = "TicketAgent.ticket_agent") =>
         /\ ret.category = "ticket"
         /\ ret.responseToUser = llm.response
         /\ state["category"] = "ticket"

\* the contest handler returned on a decision it does not recognise
C9_Witness ==
    /\ pc = "END"
    /\ impl = "ContestAgent.contest_agent"
    /\ llm.decision = "askforuserinfo"
    /\ ret.category = "contest"

\* C10: when the email collaborator fails in a ticket turn, the handler
\* returns a responseToUser that reports the failure, not the model's
\* "ticket created" response.
C10_FailureReported ==
    (/\ TicketHandlerRan
     /\ pc \in {"END", "raised"}
     /\ \E i \in CallsTo("send_email") : calls[i].out # "success") =>
        /\ pc = "END"
        /\ ret.responseToUser # llm.response

\* C11: a structured-output call that fails schema validation does not crash
\* the turn: the turn still reaches END and responseToUser holds a reply.
C11_SchemaErrorRecovered ==
    err = "SchemaValidationError" =>
        /\ pc = "END"
        /\ state["responseToUser"] # Absent

\* C12: a model call that failed with ModelUnavailableError is retried by the
\* orchestrator: when the turn gives up, the failed call was made more than
\* once.
C12_OrchestratorRetries ==
    (pc = "raised" /\ err = "ModelUnavailableError") =>
        \E i, j \in 1..Len(calls) :
            /\ i < j
            /\ calls[i].fn = calls[j].fn
            /\ calls[i].out = "ModelUnavailableError"
            /\ calls[j].out = "ModelUnavailableError"

\* the keys a step may write: lnode, responseToUser, category and a handler's
\* own optional fields
C13_WritableKeys == {"lnode", "responseToUser", "category", "name", "email"}

\* C13: the classifier, the router and every handler leave initialMessage as
\* the turn received it; the record a step returns holds only lnode,
\* responseToUser, category and the handler's own optional fields.
C13_MessageImmutable ==
    [][(pc \in {"classifier", "router", "node"}) =>
         (/\ state["initialMessage"] = state'["initialMessage"]
          /\ DOMAIN ret' \subseteq C13_WritableKeys
          /\ \A k \in DOMAIN state \ C13_WritableKeys : state[k] = state'[k])]_vars

\* a BookAppointment stage returned its record with name and email in the
\* second turn, the message still the one that turn began with
C13_Witness ==
    /\ pc = "END"
    /\ turns = 2
    /\ impl = "ContestAgent.contest_agent"
    /\ "name" \in DOMAIN ret
    /\ state["initialMessage"] = calls[1].args[1]

TicketSubject == "New Ticket from SalesCompAgent"

\* the support-team emails delivered in this conversation
TicketSends ==
    { k \in 1..Len(effects) :
        /\ effects[k].fn = "send_email"
        /\ effects[k].args[3] = TicketSubject
        /\ effects[k].out = "success" }

\* C15: over the ticket turns of one conversation about the same issue the
\* support-team email goes out at most once.
C15_TicketNotRecreated ==
    \A j, k \in TicketSends :
        effects[j].args[4] = effects[k].args[4] => j = k

\* C16: in a contest turn every intake-form email follows a booking call for
\* the same (timeslot, email) that returned a confirmation.
C16_EmailAfterConfirmedBooking ==
    ContestHandlerRan =>
        \A i \in CallsTo("send_email") :
            \E j \in CallsTo("book_appointment") :
                /\ j < i
                /\ calls[j].args = <<llm.timeslot, llm.email>>
                /\ calls[j].out = "Appointment confirmed"

\* C17: lnode names the last component that wrote the state: the classifier
\* right after the classifier, and the handler, never the classifier, once a
\* handler has written its record.
C17_LnodeNamesWriter ==
    /\ pc = "router" => state["lnode"] = "initial_classifier"
    /\ (pc = "END" /\ Len(trace) = 4 /\ DOMAIN ret # {}) =>
         state["lnode"] # "initial_classifier"

\* the scheduling, booking and email calls of this turn
ExternalCalls ==
    { i \in 1..Len(calls) :
        calls[i].fn \in {"handle_appointment_request", "book_appointment", "send_email"} }

\* C18: a contest turn makes scheduling, booking and email calls only in the
\* stage they belong to: none outside BookAppointment and ConfirmAppointment,
\* only scheduling (and one plain completion) in BookAppointment, booking and
\* email only in ConfirmAppointment; policy and commission turns make none.
C18_StageEffects ==
    /\ ContestHandlerRan =>
         IF DOMAIN llm = {} THEN ExternalCalls = {} /\ CallsTo("invoke") = {}
         ELSE /\ llm.decision \notin {"BookAppointment", "ConfirmAppointment"} =>
                   ExternalCalls = {} /\ CallsTo("invoke") = {}
              /\ llm.decision = "BookAppointment" =>
                   /\ ExternalCalls = CallsTo("handle_appointment_request")
                   /\ Cardinality(CallsTo("handle_appointment_request")) = 1
                   /\ Cardinality(CallsTo("invoke")) <= 1
                   /\ pc = "END" => Cardinality(CallsTo("invoke")) = 1
              /\ llm.decision = "ConfirmAppointment" =>
                   /\ CallsTo("handle_appointment_request") = {}
                   /\ CallsTo("invoke") = {}
    /\ (Len(trace) >= 3 /\ trace[3] \in {"policy", "commission"}) =>
         /\ ExternalCalls = {}
         /\ Len(calls) = 2

\* a contest turn on an unrecognised decision ended with no external call
C18_Witness ==
    /\ pc = "END"
    /\ impl = "ContestAgent.contest_agent"
    /\ llm.decision = "confirmappointment"
    /\ ExternalCalls = {}

\* C19: every decision other than BookAppointment and ConfirmAppointment
\* (AppointmentComplete, Other, askForUserInfo, other spellings) returns the
\* model's nextsteps as responseToUser and nothing else; BookAppointment
\* returns the formatted slot list and the model's name and email.
C19_ContestResponses ==
    (pc = "END" /\ impl = "ContestAgent.contest_agent") =>
        /\ llm.decision \notin {"BookAppointment", "ConfirmAppointment"} =>
             /\ ret = [lnode |-> "contest_agent",
                       responseToUser |-> llm.nextsteps,
                       category |-> "contest"]
             /\ state["responseToUser"] = llm.nextsteps
        /\ llm.decision = "BookAppointment" =>
             /\ ret.responseToUser = SlotList
             /\ state["responseToUser"] = SlotList
             /\ DOMAIN ret = {"lnode", "responseToUser", "category", "name", "email"}
             /\ ret.name = llm.name
             /\ ret.email = llm.email

\* a BookAppointment stage returned the slot list with the user's name
C19_Witness ==
    /\ pc = "END"
    /\ impl = "ContestAgent.contest_agent"
    /\ llm.decision = "BookAppointment"
    /\ ret.name = "Ann Lee"
    /\ ret.responseToUser = SlotList

\* C20: whenever the router decides, the category it reads is the one the
\* classifier wrote in this turn, also when the turn began with an audit value
\* a policy or commission handler had left in category: the dispatch, or the
\* termination, follows this turn's classifier output alone.
C20_RouterReadsClassifier ==
    /\ pc = "router" =>
         /\ cls # Absent
         /\ state["category"] = cls
         /\ ret = [lnode |-> "initial_classifier",
                   responseToUser |-> "Classifier successful",
                   category |-> cls]
    /\ pc = "node" => (cls \in HandlerIds /\ nxt = cls)
    /\ (pc = "END" /\ Len(trace) = 3) => (cls # Absent /\ cls \notin HandlerIds)

\* the router is about to decide in a turn that began with a policy name in
\* category, and reads the classifier's "contest"
C20_Witness ==
    /\ pc = "router"
    /\ turns = 2
    /\ stale = "policy"
    /\ cls = "contest"
    /\ state["category"] = "contest"

\* the calls of this turn that went to the language model
ModelCallNames ==
    {"structured_output:Category", "structured_output:PolicyResponse",
     "structured_output:CommissionResponse", "structured_output:TicketResponse",
     "structured_output:TicketEmail", "structured_output:ContestDecision", "invoke"}

ModelCalls == { i \in 1..Len(calls) : calls[i].fn \in ModelCallNames }

\* one step of the running turn: the classifier, the router or a handler
TurnStep ==
    \/ initial_classifier
    \/ router
    \/ policy_agent
    \/ commission_agent
    \/ contest_agent
    \/ ticket_agent
    \/ clarify_agent
    \/ ContestAgent_contest_agent
    \/ TicketAgent_ticket_agent

\* C21: every turn terminates when every model call and collaborator call
\* returns, with a value or with an error: the turn is at the terminal state
\* or can take a further step, it never ends anywhere else, it visits at most
\* classifier, router, one handler and END, and it makes at most three model
\* calls.
C21_TurnTerminates ==
    /\ pc \in {"classifier", "router", "node", "END"}
    /\ pc # "END" => ENABLED TurnStep
    /\ Len(trace) <= 4
    /\ Cardinality(ModelCalls) <= 3

\* what holds of a turn's length whether it ends at END or by an error that
\* leaves the graph: no step is possible after either, and the bounds hold
TurnBounded ==
    /\ pc \in {"END", "raised"} <=> ~ ENABLED TurnStep
    /\ Len(trace) <= 4
    /\ Cardinality(ModelCalls) <= 3
    /\ pc = "END" => trace[Len(trace)] = END

\* C22: in the ConfirmAppointment stage the booking collaborator and the email
\* collaborator are invoked only with a present timeslot and a present email:
\* no booking call carries a None timeslot or a None email, and no intake-form
\* email is sent to None or after a booking call that carried a None.
C22_ConfirmArgsPresent ==
    \A i \in 1..Len(calls) :
        /\ calls[i].fn = "book_appointment" =>
             None \notin {calls[i].args[1], calls[i].args[2]}
        /\ (calls[i].fn = "send_email" /\ calls[i].args[3] = IntakeSubject) =>
             /\ calls[i].args[2] # None
             /\ \A j \in 1..(i - 1) :
                  calls[j].fn = "book_appointment" =>
                      None \notin {calls[j].args[1], calls[j].args[2]}

====
